---- MODULE Spec2Model ----
(***************************************************************************)
(* Model of inline_forms/forms.py: the PersonForm model form, the          *)
(* PersonFormSet formset and the two inline formsets of Pet under Person   *)
(* (PersonWithPetsFormSet, PetInline), together with the store of Person   *)
(* and Pet rows they validate against and save into.                       *)
(*                                                                         *)
(* One request is handled at a time: a form or formset is constructed and  *)
(* validated (is_valid), optionally saved, and the request ends.           *)
(***************************************************************************)
EXTENDS Integers, Sequences, FiniteSets, TLC

\* Python's None where a primary key or an instance is expected.
None == 0

\* ---------------------------------------------------------------- bounds
MaxPersons == 2
MaxPets == 2
MaxForms == 2

PersonIds == 1..MaxPersons
PetIds == 1..MaxPets

\* ------------------------------------------------- inline_forms.models
\* The editable attributes of Person (besides the automatic primary key).
PersonModelFields == {"name"}

\* The editable attributes of Pet (besides the automatic primary key): the
\* back-reference to Person, a name, a race and a creation timestamp.
PetModelFields == {"owner", "name", "race", "created_date"}

\* The foreign key of Pet to Person.
PetFK == "owner"

\* The fields of Pet holding a timestamp; the others hold text.
PetDateFields == {"created_date"}

\* ---------------------------------------------------- forms.py, Meta/kwargs
\* The declaration fields = '__all__' (django.forms.models.ALL_FIELDS).
ALL_FIELDS == {"__all__"}

\* PersonForm.Meta.fields
PersonForm_fields == ALL_FIELDS

\* Mutant: one blank form too many.
MutPersonFormSet_extra == 1 + 1

\* formset_factory(PersonForm, extra=1)
PersonFormSet_extra == 1

\* inlineformset_factory(Person, Pet, fields=('name', 'race', 'created_date',))
PersonWithPetsFormSet_fields == {"name", "race", "created_date"}

\* Mutant: the class leaves out one of the three fields.
MutPetInline_fields == {"name", "race"}

\* PetInline.fields
PetInline_fields == ALL_FIELDS

\* The defaults formset_factory and inlineformset_factory apply when the
\* call names no min_num, max_num, validate_min, validate_max, can_delete.
DEFAULT_MIN_NUM == 0
DEFAULT_MAX_NUM == 1000
min_num == DEFAULT_MIN_NUM
max_num == DEFAULT_MAX_NUM
absolute_max == max_num + DEFAULT_MAX_NUM
validate_min == FALSE
validate_max == FALSE
PersonFormSet_can_delete == FALSE
Inline_can_delete == TRUE

\* fields_for_model: the model's editable fields a declaration selects.
fields_for_model(modelFields, decl) ==
    IF decl = ALL_FIELDS THEN modelFields ELSE decl \cap modelFields

\* The fields of a Pet form of an inline formset that are read from the
\* user's input: the declared ones, the foreign key being replaced by the
\* hidden InlineForeignKeyField (BaseInlineFormSet.add_fields).
InlineEditableFields(decl) == fields_for_model(PetModelFields, decl) \ {PetFK}

PersonFormFields == fields_for_model(PersonModelFields, PersonForm_fields)

\* ------------------------------------------------------------ form fields
MsgRequired == "This field is required."
MsgDate == "Enter a valid date/time."
MsgInline == "The inline value did not match the parent instance."
MsgChoice == "Select a valid choice. That choice is not one of the available choices."

\* A timestamp column that holds no value.
NullDate == <<>>

\* The text inputs forms are given; "" is an input left empty.
NameInputs == {"", "Rex"}
RaceInputs == {"", "Dog"}
DateInputs == {"", "2020-01-01", "06/30/2021", "tomorrow"}
PersonNameInputs == {"", "Ann"}

\* DateTimeField.to_python: the input formats %Y-%m-%d and %m/%d/%Y; a text
\* in neither format does not parse.
DateParses(v) == v \in {"2020-01-01", "01/01/2020", "2021-06-30", "06/30/2021"}
DateParse(v) ==
    CASE v \in {"2020-01-01", "01/01/2020"} -> <<2020, 1, 1>>
      [] v \in {"2021-06-30", "06/30/2021"} -> <<2021, 6, 30>>
      [] OTHER -> NullDate

\* Field.clean of a required CharField.
CharField_clean(v) ==
    IF v = "" THEN [ok |-> FALSE, value |-> "", msg |-> MsgRequired]
    ELSE [ok |-> TRUE, value |-> v, msg |-> ""]

\* Field.clean of a required DateTimeField.
DateTimeField_clean(v) ==
    IF v = "" THEN [ok |-> FALSE, value |-> NullDate, msg |-> MsgRequired]
    ELSE IF ~DateParses(v) THEN [ok |-> FALSE, value |-> NullDate, msg |-> MsgDate]
    ELSE [ok |-> TRUE, value |-> DateParse(v), msg |-> ""]

\* The form field fields_for_model builds for a column of Pet.
PetField_clean(f, v) ==
    IF f \in PetDateFields THEN DateTimeField_clean(v) ELSE CharField_clean(v)

\* Field.has_changed against the value of the instance the form edits
\* (initial): text is compared as text, a timestamp after to_python.
PetField_has_changed(f, initial, v) ==
    IF f \in PetDateFields
    THEN IF v = "" THEN initial # NullDate
         ELSE IF ~DateParses(v) THEN TRUE
         ELSE DateParse(v) # initial
    ELSE v # initial

\* The value a column of a new, unsaved Pet has before a form sets it.
PetField_default(f) == IF f \in PetDateFields THEN NullDate ELSE ""

\* Mutant: the submitted parent reference is taken as it comes.
MutInlineForeignKeyField_clean(parent, v) ==
    [ok |-> TRUE, value |-> IF v = None THEN parent ELSE v, msg |-> ""]

\* InlineForeignKeyField.clean: an empty value stands for the parent
\* instance; any other value must equal the parent's primary key. The
\* cleaned value is the parent instance, never the submitted value.
InlineForeignKeyField_clean(parent, v) ==
    IF v = None THEN [ok |-> TRUE, value |-> parent, msg |-> ""]
    ELSE IF v # parent THEN [ok |-> FALSE, value |-> None, msg |-> MsgInline]
    ELSE [ok |-> TRUE, value |-> parent, msg |-> ""]

\* ------------------------------------------------------ inline Pet forms
\* What a request submits for one form of an inline formset: the hidden
\* primary key and parent reference, the text of the three inputs, and
\* the DELETE checkbox.
PetEntries ==
    [id : {None} \cup PetIds, owner : {None} \cup PersonIds,
     name : NameInputs, race : RaceInputs, created_date : DateInputs,
     DELETE : BOOLEAN]

\* BaseInlineFormSet.__init__: the queryset is the Pets of the instance; a
\* missing or unsaved instance has none.
InlineQueryset(petRows, parent) ==
    IF parent = None THEN {}
    ELSE {p \in DOMAIN petRows : petRows[p].owner = parent}

\* BaseModelFormSet._construct_form: an initial form edits the object of
\* the queryset its submitted primary key names, any other form a new Pet.
FormInstance(e, isInitial, qs) ==
    IF isInitial /\ e.id \in qs THEN e.id ELSE None

\* The value the form shows for a field before the user edits it.
FormInitial(petRows, inst, f) ==
    IF inst = None THEN PetField_default(f) ELSE petRows[inst][f]

\* BaseForm.changed_data over the declared fields, the hidden primary key
\* and the DELETE checkbox; InlineForeignKeyField.has_changed is False.
FormChangedData(e, inst, fields, petRows) ==
    {f \in fields : PetField_has_changed(f, FormInitial(petRows, inst, f), e[f])}
    \cup (IF e.id # inst THEN {"id"} ELSE {})
    \cup (IF Inline_can_delete /\ e.DELETE THEN {"DELETE"} ELSE {})

\* Mutant: no form may be left empty.
MutEmptyPermitted(index, initialCount) == FALSE

\* formset _construct_form: forms past the initial ones and past min_num
\* may be left empty (index counts from 0).
EmptyPermitted(index, initialCount) ==
    index >= initialCount /\ index >= min_num

\* BaseForm._clean_fields of one Pet form: the message of every field that
\* does not clean, by field name.
FormFieldErrors(e, fields, parent, qs) ==
    LET bad == {f \in fields : ~PetField_clean(f, e[f]).ok}
        fk == IF InlineForeignKeyField_clean(parent, e.owner).ok THEN {} ELSE {PetFK}
        pk == IF e.id # None /\ e.id \notin qs THEN {"id"} ELSE {}
    IN [f \in bad \cup fk \cup pk |->
          IF f \in bad THEN <<PetField_clean(f, e[f]).msg>>
          ELSE IF f = PetFK THEN <<MsgInline>>
          ELSE <<MsgChoice>>]

\* full_clean of the form at the given index: an unchanged form that may
\* be empty is not cleaned at all.  cleaned_data holds the declared fields
\* that cleaned, and the parent the InlineForeignKeyField returned.
InlineForm(e, index, initialCount, fields, parent, petRows) ==
    LET qs == InlineQueryset(petRows, parent)
        isInitial == index < initialCount
        inst == FormInstance(e, isInitial, qs)
        changed == FormChangedData(e, inst, fields, petRows) # {}
        skipped == EmptyPermitted(index, initialCount) /\ ~changed
        errs == IF skipped THEN << >> ELSE FormFieldErrors(e, fields, parent, qs)
        okf == IF skipped THEN {} ELSE {f \in fields : PetField_clean(f, e[f]).ok}
    IN [pk |-> inst,
        initial |-> isInitial,
        changed |-> changed,
        delete |-> Inline_can_delete /\ ~skipped /\ e.DELETE,
        errors |-> errs,
        cleaned |-> [f \in okf |-> PetField_clean(f, e[f]).value],
        fk |-> IF skipped THEN None
               ELSE InlineForeignKeyField_clean(parent, e.owner).value]

\* BaseFormSet.forms: INITIAL_FORMS of the management form is the number of
\* entries that carry a primary key.
InitialFormCount(data) == Cardinality({i \in 1..Len(data) : data[i].id # None})

InlineForms(data, fields, parent, petRows) ==
    [i \in 1..Len(data) |->
        InlineForm(data[i], i - 1, InitialFormCount(data), fields, parent, petRows)]

\* BaseFormSet.is_valid: the forms marked for deletion are not asked.
InlineIsValid(forms) ==
    \A i \in 1..Len(forms) : forms[i].delete \/ DOMAIN forms[i].errors = {}

\* BaseFormSet.errors: one mapping per form, empty for a form to delete.
InlineErrors(forms) ==
    [i \in 1..Len(forms) |-> IF forms[i].delete THEN << >> ELSE forms[i].errors]

\* ------------------------------------------------------- inline save()
ExcNone == ""
ExcInvalid == "ValueError: the Pet could not be saved because the data didn't validate"
ExcUnsaved == "ValueError: save() prohibited to prevent data loss due to unsaved related object"
ExcPersonInvalid == "ValueError: the Person could not be saved because the data didn't validate"

\* Mutant: the DELETE marks are not honoured.
MutDeletedForms(forms) == {}

\* BaseFormSet.deleted_forms: none while the formset is invalid; otherwise
\* the forms marked DELETE, unchanged extra forms left out.
DeletedForms(forms) ==
    IF ~InlineIsValid(forms) \/ ~Inline_can_delete THEN {}
    ELSE {i \in 1..Len(forms) :
            /\ ~(~forms[i].initial /\ ~forms[i].changed)
            /\ forms[i].delete}

\* construct_instance + Model.save of an edited Pet: the cleaned fields are
\* written, the parent is the one the InlineForeignKeyField returned.
UpdatedPet(row, form) ==
    [f \in PetModelFields |->
        IF f = PetFK THEN form.fk
        ELSE IF f \in DOMAIN form.cleaned THEN form.cleaned[f]
        ELSE row[f]]

\* Mutant: the parent of a new Pet is left unset.
MutNewPet(parent, form) ==
    [f \in PetModelFields |->
        IF f = PetFK THEN None
        ELSE IF f \in DOMAIN form.cleaned THEN form.cleaned[f]
        ELSE PetField_default(f)]

\* BaseInlineFormSet.save_new: the parent of a new Pet is the formset's
\* instance; the other columns are the cleaned fields or their defaults.
NewPet(parent, form) ==
    [f \in PetModelFields |->
        IF f = PetFK THEN parent
        ELSE IF f \in DOMAIN form.cleaned THEN form.cleaned[f]
        ELSE PetField_default(f)]

\* Mutant: a Pet is saved whatever its parent.
MutSaveNewRaises(parent) == FALSE

\* Model.save of a new Pet: a parent without a primary key is refused.
SaveNewRaises(parent) == parent = None

\* One form of save_existing_objects / save_new_objects, applied to the
\* rows st.pets; a raised exception ends the save where it stands.
SaveForm(forms, i, parent, st) ==
    LET form == forms[i] IN
    IF form.initial
    THEN IF form.pk = None \/ form.pk \notin DOMAIN st.pets THEN st
         ELSE IF i \in DeletedForms(forms)
              THEN [st EXCEPT !.pets = [p \in DOMAIN st.pets \ {form.pk} |-> st.pets[p]],
                              !.deleted = @ \cup {form.pk}]
         ELSE IF ~form.changed THEN st
         ELSE IF DOMAIN form.errors # {} THEN [st EXCEPT !.exc = ExcInvalid]
         ELSE [st EXCEPT !.pets = [@ EXCEPT ![form.pk] = UpdatedPet(@, form)],
                         !.changed = @ \cup {form.pk}]
    ELSE IF ~form.changed THEN st
         ELSE IF Inline_can_delete /\ form.delete THEN st
         ELSE IF DOMAIN form.errors # {} THEN [st EXCEPT !.exc = ExcInvalid]
         ELSE IF SaveNewRaises(parent) THEN [st EXCEPT !.exc = ExcUnsaved]
         ELSE [st EXCEPT !.pets = [p \in DOMAIN st.pets \cup {st.next} |->
                                     IF p = st.next THEN NewPet(parent, form)
                                     ELSE st.pets[p]],
                         !.next = @ + 1,
                         !.new = @ \cup {st.next}]

RECURSIVE SaveFrom(_, _, _, _)
SaveFrom(forms, i, parent, st) ==
    IF i > Len(forms) \/ st.exc # ExcNone THEN st
    ELSE SaveFrom(forms, i + 1, parent, SaveForm(forms, i, parent, st))

\* BaseModelFormSet.save(commit=True): the existing objects, then the new
\* ones (the initial forms come first).  The result holds the rows, the
\* next primary key, the exception that reached the caller, and the keys
\* of the Pets created, changed and deleted.
InlineSave(forms, parent, petRows, nextPk) ==
    SaveFrom(forms, 1, parent,
             [pets |-> petRows, next |-> nextPk, exc |-> ExcNone,
              new |-> {}, changed |-> {}, deleted |-> {}])

\* ------------------------------------------------------------ PersonForm
\* What a request submits for one PersonForm.
PersonEntries == [name : PersonNameInputs]
BlankPerson == [name |-> ""]

\* Mutant: no field of PersonForm is checked.
MutPersonFormErrors(data) == << >>

\* BaseForm._clean_fields of PersonForm: every field of Person is a
\* required text field.
PersonFormErrors(data) ==
    [f \in {g \in PersonFormFields : ~CharField_clean(data[g]).ok} |->
        <<CharField_clean(data[f]).msg>>]

\* BaseForm.has_changed of a PersonForm without initial data.
PersonFormHasChanged(data) == \E f \in PersonFormFields : data[f] # ""

\* _post_clean / construct_instance: the in-memory instance after
\* validation carries the cleaned fields; the others keep their value.
PersonFormInstance(personRows, inst, data) ==
    [pk |-> inst,
     row |-> [f \in PersonModelFields |->
                IF f \in PersonFormFields /\ CharField_clean(data[f]).ok
                THEN CharField_clean(data[f]).value
                ELSE IF inst = None THEN "" ELSE personRows[inst][f]]]

\* Mutant: the new row is lost.
MutInsertPerson(personRows, pk, row) == personRows

\* Model.save of a Person without a primary key: one row is added under
\* the next key.
InsertPerson(personRows, pk, row) ==
    [p \in DOMAIN personRows \cup {pk} |-> IF p = pk THEN row ELSE personRows[p]]

\* ---------------------------------------------------------- PersonFormSet
\* BaseFormSet.total_form_count: a bound formset has the TOTAL_FORMS the
\* management form submits, capped at absolute_max; an unbound one its
\* initial forms (at least min_num) plus the extra ones, capped at max_num.
total_form_count(bound, totalForms, initialForms) ==
    IF bound THEN IF totalForms < absolute_max THEN totalForms ELSE absolute_max
    ELSE LET shown == (IF initialForms > min_num THEN initialForms ELSE min_num)
                      + PersonFormSet_extra
         IN IF initialForms > max_num THEN initialForms
            ELSE IF shown > max_num THEN max_num
            ELSE shown

\* The data of the form at a position (from 1): positions past the
\* submitted entries carry no data.
FormData(data, i) == IF i <= Len(data) THEN data[i] ELSE BlankPerson

\* full_clean of the form at a position: an unchanged form that may be
\* empty is not cleaned.
PersonSubFormErrors(data, i, initialForms) ==
    IF EmptyPermitted(i - 1, initialForms) /\ ~PersonFormHasChanged(FormData(data, i))
    THEN << >>
    ELSE PersonFormErrors(FormData(data, i))

\* The positions whose form can have errors: those with submitted data and
\* those that may not be left empty.  Every later form is an unchanged
\* extra form, which full_clean skips.
AskedForms(n, initialForms, data) ==
    LET a == IF Len(data) > initialForms THEN Len(data) ELSE initialForms
        b == IF a > min_num THEN a ELSE min_num
    IN 1..(IF n < b THEN n ELSE b)

\* BaseFormSet.is_valid of a bound PersonFormSet: every form is asked
\* (can_delete is off); validate_min and validate_max are off, so the
\* number of forms is not checked against min_num and max_num.
PersonFormSetValid(totalForms, initialForms, data) ==
    LET n == total_form_count(TRUE, totalForms, initialForms) IN
    /\ \A i \in AskedForms(n, initialForms, data) :
          DOMAIN PersonSubFormErrors(data, i, initialForms) = {}
    /\ ~(validate_max /\ n > max_num)
    /\ ~(validate_min /\ n < min_num)

\* The TOTAL_FORMS a request may submit: the entries it fills in, or a
\* count at, just past and far past max_num.
TotalFormsChoices == (0..MaxForms) \cup {max_num, max_num + 1, absolute_max}

\* ------------------------------------------------------------------ state
VARIABLES
    persons,        \* the Person rows, by primary key
    pets,           \* the Pet rows, by primary key
    nextPersonId,   \* the primary key the next new Person gets
    nextPetId,      \* the primary key the next new Pet gets
    req             \* the form or formset of the request being handled

vars == <<persons, pets, nextPersonId, nextPetId, req>>

Idle == [kind |-> "idle", phase |-> "idle"]

Init ==
    /\ persons = << >>
    /\ pets = << >>
    /\ nextPersonId = 1
    /\ nextPetId = 1
    /\ req = Idle

store == <<persons, pets, nextPersonId, nextPetId>>

\* ----------------------------------------------------------------- inputs
\* The entries of a submission come as the form renders them: the forms of
\* existing Pets first, each Pet once.
WellFormed(data) ==
    /\ \A i \in 1..Len(data) : (data[i].id # None) <=> (i <= InitialFormCount(data))
    /\ \A i, j \in 1..Len(data) : (i < j /\ data[i].id # None) => data[i].id # data[j].id

Submissions(S) == UNION {[1..n -> S] : n \in 0..MaxForms}

\* The entries of a form as the page renders it and a user fills it in: the
\* hidden parent reference untouched, the three inputs all empty or all
\* filled.
RenderedEntries ==
    {e \in PetEntries :
        /\ e.owner = None
        /\ (e.name = "") = (e.race = "")
        /\ (e.name = "") = (e.created_date = "")}

\* The submissions of an inline formset: one form with any inputs, hidden
\* ones included, or up to MaxForms forms filled in as rendered.
InlineSubmissions ==
    {d \in [1..1 -> PetEntries] \cup Submissions(RenderedEntries) : WellFormed(d)}

\* The instance a form or formset is constructed with: none, or a Person
\* of the store.
Instances == {None} \cup DOMAIN persons

\* --------------------------------------------------------------- actions
\* form = PersonForm(data, instance=inst); form.is_valid()
PersonFormIsValid ==
    /\ req.kind = "idle"
    /\ \E data \in PersonEntries, inst \in Instances :
          req' = [kind |-> "PersonForm", phase |-> "validated",
                  instance |-> inst, data |-> data,
                  errors |-> PersonFormErrors(data),
                  obj |-> PersonFormInstance(persons, inst, data),
                  exc |-> ExcNone]
    /\ UNCHANGED store

\* form.save(): refused when the data did not validate; otherwise the
\* in-memory instance is inserted (no primary key yet) or updated.
PersonFormSave ==
    /\ req.kind = "PersonForm"
    /\ req.phase = "validated"
    /\ IF DOMAIN req.errors # {}
       THEN /\ req' = [req EXCEPT !.phase = "saved", !.exc = ExcPersonInvalid]
            /\ UNCHANGED store
       ELSE IF req.instance = None
       THEN /\ nextPersonId <= MaxPersons
            /\ persons' = InsertPerson(persons, nextPersonId, req.obj.row)
            /\ nextPersonId' = nextPersonId + 1
            /\ req' = [req EXCEPT !.phase = "saved", !.obj.pk = nextPersonId]
            /\ UNCHANGED <<pets, nextPetId>>
       ELSE /\ persons' = [persons EXCEPT ![req.instance] = req.obj.row]
            /\ req' = [req EXCEPT !.phase = "saved"]
            /\ UNCHANGED <<pets, nextPersonId, nextPetId>>

\* formset = PersonFormSet(initial=[...]) with some number of initial
\* entries and no data: the forms it renders.
PersonFormSetRender ==
    /\ req.kind = "idle"
    /\ \E initialForms \in 0..MaxForms :
          req' = [kind |-> "PersonFormSet", phase |-> "rendered", bound |-> FALSE,
                  totalForms |-> 0, initialForms |-> initialForms, data |-> << >>,
                  nforms |-> total_form_count(FALSE, 0, initialForms),
                  valid |-> FALSE]
    /\ UNCHANGED store

\* formset = PersonFormSet(data); formset.is_valid().  The management form
\* of the data gives TOTAL_FORMS and INITIAL_FORMS.
PersonFormSetIsValid ==
    /\ req.kind = "idle"
    /\ \E data \in Submissions(PersonEntries), totalForms \in TotalFormsChoices,
          initialForms \in 0..MaxForms :
          /\ initialForms <= totalForms
          /\ req' = [kind |-> "PersonFormSet", phase |-> "validated", bound |-> TRUE,
                     totalForms |-> totalForms, initialForms |-> initialForms,
                     data |-> data,
                     nforms |-> total_form_count(TRUE, totalForms, initialForms),
                     valid |-> PersonFormSetValid(totalForms, initialForms, data)]
    /\ UNCHANGED store

\* An inline formset class of the given field declaration, constructed
\* with data and a parent instance, and validated.
InlineConstructAndValidate(decl) ==
    /\ req.kind = "idle"
    /\ \E data \in InlineSubmissions, inst \in Instances :
          LET forms == InlineForms(data, InlineEditableFields(decl), inst, pets) IN
          req' = [kind |-> "Inline", phase |-> "validated",
                  fields |-> InlineEditableFields(decl),
                  instance |-> inst, data |-> data, forms |-> forms,
                  valid |-> InlineIsValid(forms)]
    /\ UNCHANGED store

\* formset = PersonWithPetsFormSet(data, instance=inst); formset.is_valid()
PersonWithPetsFormSetIsValid ==
    InlineConstructAndValidate(PersonWithPetsFormSet_fields)

\* PetInline(Person, request, inst).construct_formset(); formset.is_valid()
PetInlineIsValid ==
    InlineConstructAndValidate(PetInline_fields)

\* formset.save() of an inline formset.  What the caller has afterwards:
\* the exception that reached it, if any, and the Pets the save created,
\* changed and deleted (new_objects, changed_objects, deleted_objects).
InlineFormSetSave ==
    /\ req.kind = "Inline"
    /\ req.phase = "validated"
    /\ LET r == InlineSave(req.forms, req.instance, pets, nextPetId) IN
       /\ r.next <= MaxPets + 1
       /\ pets' = r.pets
       /\ nextPetId' = r.next
       /\ req' = [kind |-> "Inline", phase |-> "saved",
                  instance |-> req.instance, valid |-> req.valid,
                  exc |-> r.exc, new |-> r.new,
                  changed |-> r.changed, deleted |-> r.deleted]
    /\ UNCHANGED <<persons, nextPersonId>>

\* The request ends; its form or formset is dropped.
Respond ==
    /\ req.kind # "idle"
    /\ req' = Idle
    /\ UNCHANGED store

Next ==
    \/ PersonFormIsValid
    \/ PersonFormSave
    \/ PersonFormSetRender
    \/ PersonFormSetIsValid
    \/ PersonWithPetsFormSetIsValid
    \/ PetInlineIsValid
    \/ InlineFormSetSave
    \/ Respond

Spec == Init /\ [][Next]_vars

\* ================================================================ claims
InlineValidated == req.kind = "Inline" /\ req.phase = "validated"
InlineSaved == req.kind = "Inline" /\ req.phase = "saved"

\* The step formset.save() of an inline formset.
InlineSaveStep == InlineValidated /\ req'.kind = "Inline" /\ req'.phase = "saved"

\* The forms of the submission that ask for a new Pet: extra forms that
\* carry input and are not marked DELETE.
PopulatedNewEntries(data) ==
    {i \in 1..Len(data) :
        /\ data[i].id = None
        /\ ~data[i].DELETE
        /\ (data[i].name # "" \/ data[i].race # "" \/ data[i].created_date # "")}

\* The Pets of the given Person the submission marks for deletion.
MarkedForDeletion(data, parent, petRows) ==
    {p \in DOMAIN petRows :
        /\ parent # None
        /\ petRows[p].owner = parent
        /\ \E i \in 1..Len(data) : data[i].id = p /\ data[i].DELETE}

\* What each declaration makes of the request at hand: the forms, the
\* validation result, and the result of save().
OutcomeOf(decl) ==
    LET forms == InlineForms(req.data, InlineEditableFields(decl), req.instance, pets)
    IN <<InlineIsValid(forms), InlineErrors(forms),
         InlineSave(forms, req.instance, pets, nextPetId)>>

WithoutOwner(data) == [i \in 1..Len(data) |-> [data[i] EXCEPT !.owner = None]]

\* A form that is cleaned and kept, whose hidden parent reference names
\* another Person than the formset's instance.
TamperedForms ==
    {i \in 1..Len(req.data) :
        /\ req.data[i].owner # None
        /\ req.data[i].owner # req.instance
        /\ ~req.forms[i].delete
        /\ (req.forms[i].initial \/ req.forms[i].changed)}

C3_SavedUnderParent ==
    [][(InlineSaveStep /\ req.valid /\ req.instance \in DOMAIN persons) =>
        /\ req'.exc = ExcNone
        /\ \A p \in req'.new \cup req'.changed :
              p \in DOMAIN pets' /\ pets'[p].owner = req.instance
        /\ req'.new = DOMAIN pets' \ DOMAIN pets
        /\ Cardinality(req'.new) = Cardinality(PopulatedNewEntries(req.data))
        /\ (Cardinality(PopulatedNewEntries(req.data)) = 1 =>
              Cardinality(DOMAIN pets' \ DOMAIN pets) = 1)]_vars

C3_Witness ==
    /\ InlineSaved
    /\ req.valid
    /\ req.exc = ExcNone
    /\ Cardinality(req.new) = 1
    /\ req.changed # {}

\* C4: saving a valid inline formset removes exactly the Pets of the given
\* Person that the submission marks for deletion; every other Pet, of this
\* Person or another, still exists.
C4_DeletesExactlyMarked ==
    [][(InlineSaveStep /\ req.valid) =>
        LET marked == MarkedForDeletion(req.data, req.instance, pets) IN
        /\ \A p \in marked : p \notin DOMAIN pets'
        /\ \A p \in DOMAIN pets \ marked : p \in DOMAIN pets'
        /\ req'.deleted = marked]_vars

C4_Witness ==
    /\ InlineSaved
    /\ req.valid
    /\ req.deleted # {}
    /\ DOMAIN pets # {}

\* C5: every stored Pet references a Person that exists in the store.
C5_ParentExists ==
    \A p \in DOMAIN pets : pets[p].owner \in DOMAIN persons

C5_Witness ==
    /\ InlineSaved
    /\ req.exc = ExcUnsaved
    /\ Cardinality(DOMAIN pets) = 2
    /\ \E p, q \in DOMAIN pets : pets[p].owner # pets[q].owner

\* C6: saving an inline formset that has a populated new entry and no
\* existing Person as instance fails: the exception reaches the caller and
\* no Pet is created.
C6_NoParentFails ==
    [][(InlineSaveStep /\ req.instance = None
          /\ PopulatedNewEntries(req.data) # {}) =>
        /\ req'.exc \in {ExcUnsaved, ExcInvalid}
        /\ (req.valid => req'.exc = ExcUnsaved)
        /\ req'.new = {}
        /\ pets' = pets]_vars

C6_Witness ==
    /\ InlineSaved
    /\ req.instance = None
    /\ req.valid
    /\ req.exc = ExcUnsaved
    /\ pets = << >>

\* The step form.save() of a PersonForm.
PersonSaveStep ==
    /\ req.kind = "PersonForm" /\ req.phase = "validated"
    /\ req'.kind = "PersonForm" /\ req'.phase = "saved"

C8_ValidationDoesNotPersist ==
    /\ [][(req'.kind = "PersonForm" /\ req'.phase = "validated") =>
            store' = store]_vars
    /\ [][persons' # persons => (PersonSaveStep /\ DOMAIN req.errors = {})]_vars
    /\ []((req.kind = "PersonForm" /\ req.phase = "validated") =>
            /\ DOMAIN req.errors = {f \in PersonModelFields : req.data[f] = ""}
            /\ \A f \in DOMAIN req.errors : Len(req.errors[f]) >= 1
            /\ req.obj.pk = req.instance
            /\ (DOMAIN req.errors = {} =>
                  \A f \in PersonModelFields : req.obj.row[f] = req.data[f]))

C8_Witness ==
    /\ req.kind = "PersonForm"
    /\ req.phase = "saved"
    /\ req.exc = ExcPersonInvalid
    /\ "name" \in DOMAIN req.errors
    /\ persons # << >>

\* A form of a PersonFormSet that counts as empty: an extra form (past the
\* initial ones) submitted without input.
EmptyExtraForm(i) ==
    i > req.initialForms /\ \A f \in PersonModelFields : FormData(req.data, i)[f] = ""

\* The form at position i validates taken on its own.
SubFormValidates(i) ==
    \A f \in PersonModelFields : FormData(req.data, i)[f] # ""

====
